---- MODULE Spec2Model ----
(***************************************************************************)
(* Liar's Dice solver (dice.py): the closed-form bid probability           *)
(* predict_probability and the table build / three-policy scan of          *)
(* compute_optimal_next_move.                                              *)
(*                                                                         *)
(* Numbers are records [kind, num, den].  kind is the Python type of the   *)
(* value ("int" or "float"); a float is carried as the exact rational      *)
(* num/den in lowest terms, i.e. the arithmetic of the source is modelled  *)
(* without rounding.                                                       *)
(***************************************************************************)
EXTENDS Integers, Sequences, FiniteSets

\* ---- bounds of the model ----
MaxN == 3
MaxD == 4
MaxHand == 2

wildcard_value == 1

\* ---- numbers ----
RECURSIVE Gcd(_, _)
Gcd(a, b) == IF b = 0 THEN a ELSE Gcd(b, a % b)

Abs(a) == IF a < 0 THEN -a ELSE a

Norm(k, nu, de) ==
  LET g == Gcd(Abs(nu), de)
  IN [kind |-> k, num |-> nu \div g, den |-> de \div g]

IntVal(k) == [kind |-> "int", num |-> k, den |-> 1]

NoValue == [kind |-> "none", num |-> 0, den |-> 1]

JoinKind(a, b) == IF a.kind = "int" /\ b.kind = "int" THEN "int" ELSE "float"

\* Python true division a / b of two ints: always a float
TrueDiv(a, b) == Norm("float", a, b)

Add(a, b) == Norm(JoinKind(a, b), a.num * b.den + b.num * a.den, a.den * b.den)

Sub(a, b) == Norm(JoinKind(a, b), a.num * b.den - b.num * a.den, a.den * b.den)

Mul(a, b) == Norm(JoinKind(a, b), a.num * b.num, a.den * b.den)

RECURSIVE Pow(_, _)
Pow(a, k) == IF k = 0 THEN [a EXCEPT !.num = 1, !.den = 1] ELSE Mul(a, Pow(a, k - 1))

GT(a, b) == a.num * b.den > b.num * a.den

GE(a, b) == a.num * b.den >= b.num * a.den

NumEq(a, b) == a.num * b.den = b.num * a.den

RECURSIVE comb(_, _)
comb(m, k) ==
  IF k < 0 \/ k > m THEN 0
  ELSE IF k = 0 \/ k = m THEN 1
  ELSE comb(m - 1, k - 1) + comb(m - 1, k)

\* ---- predict_probability ----
friendly_die_no_wildcard(x, hand) ==
  Cardinality({k \in DOMAIN hand : hand[k] = x})

friendly_die(x, hand) ==
  Cardinality({k \in DOMAIN hand : hand[k] = wildcard_value \/ hand[k] = x})

ext_y_swapped(y, fr) == fr - y

ext_y_of(y, fr) == y - fr

wildcard_p_no_complement(ext_n, i, d) ==
  Mul(IntVal(comb(ext_n, i)), Pow(TrueDiv(1, d), i))

wildcard_p_of(ext_n, i, d) ==
  Mul(Mul(IntVal(comb(ext_n, i)), Pow(TrueDiv(1, d), i)),
      Pow(TrueDiv(d - 1, d), ext_n - i))

sub_p_unconditioned(ext_n, i, j, d) ==
  Mul(Mul(IntVal(comb(ext_n - i, j)), Pow(TrueDiv(1, d), j)),
      Pow(TrueDiv(d - 1, d), ext_n - i - j))

sub_p_of(ext_n, i, j, d) ==
  Mul(Mul(IntVal(comb(ext_n - i, j)), Pow(TrueDiv(1, d - 1), j)),
      Pow(TrueDiv(d - 2, d - 1), ext_n - i - j))

\* inner loop, lines 42-46: j runs over range(ext_y - i, ext_n - i + 1)
RECURSIVE cum_sub_p_loop(_, _, _, _, _)
cum_sub_p_loop(j, cum, ext_n, i, d) ==
  IF j > ext_n - i THEN cum
  ELSE cum_sub_p_loop(j + 1, Add(cum, sub_p_of(ext_n, i, j, d)), ext_n, i, d)

\* one pass of the outer loop body, lines 34-47: the new value of probability
outer_body(probability, i, ext_n, ext_y, d) ==
  LET wildcard_p == wildcard_p_of(ext_n, i, d)
  IN IF i >= ext_y
     THEN Add(probability, wildcard_p)
     ELSE Add(probability,
              Mul(wildcard_p, cum_sub_p_loop(ext_y - i, IntVal(0), ext_n, i, d)))

\* outer loop, line 32: i runs over range(0, ext_n + 1)
RECURSIVE outer_loop(_, _, _, _, _)
outer_loop(i, probability, ext_n, ext_y, d) ==
  IF i > ext_n THEN probability
  ELSE outer_loop(i + 1, outer_body(probability, i, ext_n, ext_y, d), ext_n, ext_y, d)

predict_probability(x, y, n, d, hand) ==
  LET ext_n == n - Len(hand)
      ext_y == ext_y_of(y, friendly_die(x, hand))
  IN IF ext_y <= 0 THEN IntVal(1)
     ELSE outer_loop(0, IntVal(0), ext_n, ext_y, d)

\* ---- state ----
VARIABLES pc, n, d, hand, x, y, result,
          prev_x, prev_y, p_liar, table, i, j,
          best_I_p, best_I_act, best_II_p, best_II_act, best_III_p, best_III_act

vars == <<pc, n, d, hand, x, y, result, prev_x, prev_y, p_liar, table, i, j,
          best_I_p, best_I_act, best_II_p, best_II_act, best_III_p, best_III_act>>

Hands(dd, nn) ==
  UNION {[1..k -> 1..dd] : k \in 0..(IF nn < MaxHand THEN nn ELSE MaxHand)}

CallPrev == [act |-> "call previous player", x |-> 0, y |-> 0]

Bid(bx, by) == [act |-> "bid", x |-> bx, y |-> by]

NoAct == [act |-> "none", x |-> 0, y |-> 0]

Init ==
  /\ pc = "start"
  /\ n \in 1..MaxN
  /\ d \in 3..MaxD
  /\ hand \in Hands(d, n)
  /\ x = 0 /\ y = 0 /\ result = NoValue
  /\ prev_x = 0 /\ prev_y = 0 /\ p_liar = NoValue
  /\ table = << >>
  /\ i = 0 /\ j = 0
  /\ best_I_p = NoValue /\ best_I_act = NoAct
  /\ best_II_p = NoValue /\ best_II_act = NoAct
  /\ best_III_p = NoValue /\ best_III_act = NoAct

decisionVars == <<prev_x, prev_y, p_liar, table, i, j,
                  best_I_p, best_I_act, best_II_p, best_II_act, best_III_p, best_III_act>>

bestVars == <<best_I_p, best_I_act, best_II_p, best_II_act, best_III_p, best_III_act>>

\* a call predict_probability(x, y, n, d, hand); the face is not validated
CallPredict ==
  /\ pc = "start"
  /\ \E xx \in 1..(d + 1), yy \in 1..n :
       /\ x' = xx
       /\ y' = yy
       /\ result' = predict_probability(xx, yy, n, d, hand)
  /\ pc' = "predicted"
  /\ UNCHANGED <<n, d, hand>>
  /\ UNCHANGED decisionVars

\* ---- compute_optimal_next_move ----
\* the faces of the build loop, range(2, d+1)
BuildFaces_short(dd) == 2..(dd - 1)

BuildFaces(dd) == 2..dd

\* line 138: n rows of d-1 cells, each the int 0
NewTable(nn, dd) == [r \in 0..(nn - 1) |-> [c \in 0..(dd - 2) |-> IntVal(0)]]

\* the comparison of lines 155, 158, 161: strictly greater
improves_or_ties(p, best) == GE(p, best)

improves(p, best) == GT(p, best)

\* legality of the cell (i, j), i.e. of the bid (j+2, i+1), lines 155, 158, 161
legal_I(ii, jj, px, py) ==
  ii + 1 > py \/ (jj + 2 > px /\ ii + 1 = py)

legal_II_any_face(ii, jj, px, py) ==
  jj + 2 > px \/ ii + 1 > py

legal_II(ii, jj, px, py) ==
  jj + 2 > px \/ (ii + 1 > py /\ jj + 2 = px)

legal_III_loose(ii, jj, px, py) ==
  (jj + 2 > px /\ ii + 1 = py) \/ ii + 1 > py

legal_III(ii, jj, px, py) ==
  (jj + 2 > px /\ ii + 1 = py) \/ (ii + 1 > py /\ jj + 2 = px)

\* lines 135-138: the previous bid is received, P(bluff) and the empty table
Enter ==
  /\ pc = "start"
  /\ \E px \in 2..d, py \in 1..n :
       /\ prev_x' = px
       /\ prev_y' = py
       /\ p_liar' = Sub(IntVal(1), predict_probability(px, py, n, d, hand))
  /\ table' = NewTable(n, d)
  /\ i' = 1
  /\ j' = 2
  /\ pc' = "build"
  /\ UNCHANGED <<n, d, hand, x, y, result>>
  /\ UNCHANGED bestVars

\* lines 139-143: one pass of the inner build loop
BuildCell ==
  /\ pc = "build"
  /\ table' = [table EXCEPT ![i - 1][j - 2] = predict_probability(j, i, n, d, hand)]
  /\ IF j + 1 \in BuildFaces(d)
     THEN /\ j' = j + 1
          /\ i' = i
          /\ pc' = "build"
     ELSE IF i + 1 <= n
          THEN /\ j' = 2
               /\ i' = i + 1
               /\ pc' = "build"
          ELSE /\ j' = j
               /\ i' = i
               /\ pc' = "select"
  /\ UNCHANGED <<n, d, hand, x, y, result, prev_x, prev_y, p_liar>>
  /\ UNCHANGED bestVars

\* lines 146-151: every policy starts from the challenge baseline
InitBest ==
  /\ pc = "select"
  /\ best_I_p' = p_liar
  /\ best_I_act' = CallPrev
  /\ best_II_p' = p_liar
  /\ best_II_act' = CallPrev
  /\ best_III_p' = p_liar
  /\ best_III_act' = CallPrev
  /\ i' = 0
  /\ j' = 0
  /\ pc' = "scan"
  /\ UNCHANGED <<n, d, hand, x, y, result, prev_x, prev_y, p_liar, table>>

\* lines 153-163: one pass of the inner scan loop
ScanCell ==
  /\ pc = "scan"
  /\ IF improves(table[i][j], best_I_p) /\ legal_I(i, j, prev_x, prev_y)
     THEN best_I_p' = table[i][j] /\ best_I_act' = Bid(j + 2, i + 1)
     ELSE UNCHANGED <<best_I_p, best_I_act>>
  /\ IF improves(table[i][j], best_II_p) /\ legal_II(i, j, prev_x, prev_y)
     THEN best_II_p' = table[i][j] /\ best_II_act' = Bid(j + 2, i + 1)
     ELSE UNCHANGED <<best_II_p, best_II_act>>
  /\ IF improves(table[i][j], best_III_p) /\ legal_III(i, j, prev_x, prev_y)
     THEN best_III_p' = table[i][j] /\ best_III_act' = Bid(j + 2, i + 1)
     ELSE UNCHANGED <<best_III_p, best_III_act>>
  /\ IF j + 1 < Cardinality(DOMAIN table[i])
     THEN /\ j' = j + 1
          /\ i' = i
          /\ pc' = "scan"
     ELSE IF i + 1 < Cardinality(DOMAIN table)
          THEN /\ j' = 0
               /\ i' = i + 1
               /\ pc' = "scan"
          ELSE /\ j' = j
               /\ i' = i
               /\ pc' = "done"
  /\ UNCHANGED <<n, d, hand, x, y, result, prev_x, prev_y, p_liar, table>>

Next ==
  \/ CallPredict
  \/ Enter
  \/ BuildCell
  \/ InitBest
  \/ ScanCell

Spec == Init /\ [][Next]_vars

\* ---- reference definitions used by the properties ----
\* dice of h that show xx or the wildcard face 1
Friendly(xx, h) == Cardinality({k \in DOMAIN h : h[k] = 1 \/ h[k] = xx})

\* the assignments of the unseen dice under which the bid (xx, yy) holds
FavourableRolls(xx, yy, nn, dd, h) ==
  {r \in [1..(nn - Len(h)) -> 1..dd] :
     Friendly(xx, h) + Cardinality({k \in DOMAIN r : r[k] = xx \/ r[k] = 1}) >= yy}

ValidCall == pc = "predicted" /\ x \in 2..d

Built == pc \in {"select", "scan", "done"}

Cells == (0..(n - 1)) \X (0..(d - 2))

\* the three legality predicates of the policies, on a bid (bx, by)
PolicyLegal(k, bx, by) ==
  CASE k = 1 -> by > prev_y \/ (bx > prev_x /\ by = prev_y)
    [] k = 2 -> bx > prev_x \/ (by > prev_y /\ bx = prev_x)
    [] k = 3 -> (bx > prev_x /\ by = prev_y) \/ (by > prev_y /\ bx = prev_x)

LegalCells(k) == {c \in Cells : PolicyLegal(k, c[2] + 2, c[1] + 1)}

BestP(k) == CASE k = 1 -> best_I_p [] k = 2 -> best_II_p [] k = 3 -> best_III_p

BestAct(k) == CASE k = 1 -> best_I_act [] k = 2 -> best_II_act [] k = 3 -> best_III_act

\* C1: for a valid face the returned value is the brute-force probability:
\* (number of favourable assignments of the unseen dice) / d^(n - len(hand))
C1_Exact ==
  ValidCall =>
    result.num * d^(n - Len(hand))
      = Cardinality(FavourableRolls(x, y, n, d, hand)) * result.den

\* C1 witness: a call whose sum is evaluated and lies strictly between 0 and 1
C1_Witness ==
  /\ ValidCall
  /\ result.kind = "float"
  /\ 0 < result.num /\ result.num < result.den
  /\ Friendly(x, hand) > 0

\* C2: for a valid call the returned value lies in [0, 1]
C2_Bounds ==
  ValidCall => (0 <= result.num /\ result.num <= result.den /\ result.den > 0)

\* C2 witness: a call with no dice in hand where two wildcards can cover the bid
C2_Witness ==
  /\ ValidCall
  /\ Len(hand) = 0 /\ y = 2
  /\ 0 < result.num /\ result.num < result.den

\* C3: when the hand alone holds y dice showing x or the wildcard, the result
\* is the int 1, returned before any sum is evaluated
C3_Saturation ==
  (pc = "predicted" /\ Friendly(x, hand) >= y) => result = IntVal(1)

\* C3 witness: a saturated call with unseen dice still in play
C3_Witness ==
  /\ pc = "predicted"
  /\ Friendly(x, hand) >= y
  /\ n > Len(hand)
  /\ result = IntVal(1)

\* C4: raising the count by one never raises the probability, and every
\* column of the built table is non-increasing from row 1 to row n
C4_MonotoneCount ==
  /\ (ValidCall /\ y < n) => GE(result, predict_probability(x, y + 1, n, d, hand))
  /\ Built => \A c \in Cells :
                c[1] + 1 < n => GE(table[c[1]][c[2]], table[c[1] + 1][c[2]])

\* C4 witness: a built table with a column that strictly decreases
C4_Witness ==
  /\ Built
  /\ \E c \in Cells : c[1] + 1 < n /\ GT(table[c[1]][c[2]], table[c[1] + 1][c[2]])

\* C5: after the scan each policy holds max(callProbability, best legal cell);
\* it challenges exactly when no legal cell strictly exceeds callProbability,
\* and otherwise holds a legal bid whose table probability is that maximum
C5_Policy(k) ==
  /\ GE(BestP(k), p_liar)
  /\ \A c \in LegalCells(k) : GE(BestP(k), table[c[1]][c[2]])
  /\ \/ NumEq(BestP(k), p_liar)
     \/ \E c \in LegalCells(k) : NumEq(BestP(k), table[c[1]][c[2]])
  /\ (BestAct(k) = CallPrev) <=> ~(\E c \in LegalCells(k) : GT(table[c[1]][c[2]], p_liar))
  /\ BestAct(k) # CallPrev =>
       /\ BestAct(k).act = "bid"
       /\ <<BestAct(k).y - 1, BestAct(k).x - 2>> \in LegalCells(k)
       /\ NumEq(table[BestAct(k).y - 1][BestAct(k).x - 2], BestP(k))

C5_BestIsMax == pc = "done" => \A k \in 1..3 : C5_Policy(k)

\* C5 witness: a finished scan where Mode I raises and Mode III challenges
C5_Witness ==
  /\ pc = "done"
  /\ best_I_act.act = "bid"
  /\ best_III_act = CallPrev

\* C7: the table has n rows of d-1 cells and, once built, every cell holds
\* predict_probability of its bid; none is still the int 0 it was created with
C7_TableComplete ==
  Built =>
    /\ DOMAIN table = 0..(n - 1)
    /\ \A r \in DOMAIN table : DOMAIN table[r] = 0..(d - 2)
    /\ \A c \in Cells :
         /\ table[c[1]][c[2]] = predict_probability(c[2] + 2, c[1] + 1, n, d, hand)
         /\ table[c[1]][c[2]] # IntVal(0)

\* C7 witness: a built table holding a computed probability of zero
C7_Witness ==
  /\ Built
  /\ \E c \in Cells : table[c[1]][c[2]].num = 0 /\ table[c[1]][c[2]].kind = "float"

\* C8: among hands of one size, at least as many friendly dice give at least
\* the probability, and equally many friendly dice give the same value
C8_MonotoneFriendly ==
  ValidCall =>
    \A B \in Hands(d, n) :
      Len(B) = Len(hand) =>
        /\ Friendly(x, B) >= Friendly(x, hand) =>
             GE(predict_probability(x, y, n, d, B), result)
        /\ Friendly(x, B) = Friendly(x, hand) =>
             predict_probability(x, y, n, d, B) = result

\* C8 witness: a call for which a friendlier hand of the same size does better
C8_Witness ==
  /\ ValidCall
  /\ \E B \in Hands(d, n) :
       /\ Len(B) = Len(hand)
       /\ Friendly(x, B) > Friendly(x, hand)
       /\ GT(predict_probability(x, y, n, d, B), result)

\* ---- legality partition ----
Bids == (2..d) \X (1..n)

SetI == {b \in Bids : legal_I(b[2] - 1, b[1] - 2, prev_x, prev_y)}

SetII == {b \in Bids : legal_II(b[2] - 1, b[1] - 2, prev_x, prev_y)}

SetIII == {b \in Bids : legal_III(b[2] - 1, b[1] - 2, prev_x, prev_y)}

HasPrevBid == pc \in {"build", "select", "scan", "done"}

\* C6 as stated: for every previous bid the Mode III set is a strict subset
\* of the Mode I set and of the Mode II set
C6_StrictSubset ==
  HasPrevBid =>
    /\ SetIII \subseteq SetI /\ SetIII # SetI
    /\ SetIII \subseteq SetII /\ SetIII # SetII

\* C6 amended: the Mode III set is a subset of both sets; it is a strict
\* subset of the Mode I set exactly when prevY < n and of the Mode II set
\* exactly when prevX < d and n >= 2, and equal to them otherwise
C6_SubsetStrictInside ==
  HasPrevBid =>
    /\ SetIII \subseteq SetI
    /\ SetIII \subseteq SetII
    /\ (SetIII # SetI) <=> (prev_y < n)
    /\ (SetIII # SetII) <=> (prev_x < d /\ n >= 2)

\* C6 witness: a top-count previous bid, where Mode III and Mode I coincide
\* on a non-empty set of raises
C6_Witness ==
  /\ HasPrevBid
  /\ prev_y = n
  /\ SetIII # {}
  /\ SetIII = SetI

\* ---- invalid bid face ----
InvalidBid == [kind |-> "InvalidBid", num |-> 0, den |-> 1]

\* C9: a call with the wildcard face 1 or a face outside [2, d] ends in the
\* InvalidBid outcome and returns no probability
C9_InvalidFaceRejected ==
  (pc = "predicted" /\ x \notin 2..d) => result = InvalidBid

\* ---- tie-break ----
ScanKey(c) == c[1] * (d - 1) + c[2]

\* the cells the scan has already passed
Scanned ==
  IF pc = "done" THEN Cells
  ELSE {c \in Cells : c[1] < i \/ (c[1] = i /\ c[2] < j)}

\* legal passed cells above callProbability that no legal passed cell beats
TopCells(k) ==
  {c \in LegalCells(k) \cap Scanned :
     /\ GT(table[c[1]][c[2]], p_liar)
     /\ \A e \in LegalCells(k) \cap Scanned : GE(table[c[1]][c[2]], table[e[1]][e[2]])}

C10_Policy(k) ==
  IF TopCells(k) = {}
  THEN BestAct(k) = CallPrev /\ BestP(k) = p_liar
  ELSE \E c \in TopCells(k) :
         /\ \A e \in TopCells(k) : ScanKey(c) <= ScanKey(e)
         /\ BestAct(k) = Bid(c[2] + 2, c[1] + 1)
         /\ BestP(k) = table[c[1]][c[2]]

\* C10: all through the row-major scan, each policy holds the first of the
\* maximal legal cells passed so far (lowest count, then lowest face), and
\* keeps the challenge while no legal cell strictly exceeds callProbability
C10_FirstOccurrence ==
  pc \in {"scan", "done"} => \A k \in 1..3 : C10_Policy(k)

\* C10 witness: a finished scan where a later legal cell ties the chosen bid
\* of one policy, and another policy keeps the challenge although a legal
\* cell equals callProbability
C10_Witness ==
  /\ pc = "done"
  /\ \E k \in 1..3 :
       /\ Cardinality(TopCells(k)) >= 2
       /\ \E e \in TopCells(k) : ScanKey(e) > ScanKey(<<BestAct(k).y - 1, BestAct(k).x - 2>>)
  /\ \E k \in 1..3 :
       /\ BestAct(k) = CallPrev
       /\ \E c \in LegalCells(k) : NumEq(table[c[1]][c[2]], p_liar)
====
